---------------------------- MODULE Spec2Model ----------------------------
(***************************************************************************)
(* WorkItemClient of the code-climate task (workItems.ts), in its two      *)
(* revisions: the got transport (src/code-climate/workItems.ts) and the    *)
(* axios transport (src/unnamed/part_001).                                 *)
(*                                                                         *)
(* JavaScript runs one synchronous segment at a time: a call runs from its *)
(* entry to its first await in one step, and the arrival of a response     *)
(* runs the continuations that wait for it (and theirs) to their next      *)
(* await in one step.  Calls interleave only at their await points.        *)
(*                                                                         *)
(* Strings are sequences of atoms: the text that varies (check names,      *)
(* numbers) is spelled one character per atom, a literal of the source is  *)
(* one atom.  Concatenation is \o.                                         *)
(***************************************************************************)
EXTENDS Integers, Sequences, FiniteSets, TLC

VARIABLES rev, calls, requests, logs, nanoidCount, factoryCalls, backend

vars == <<rev, calls, requests, logs, nanoidCount, factoryCalls, backend>>

(***************************************************************************)
(* Bounds of the model.                                                    *)
(***************************************************************************)
MaxCalls == 2
MaxPatchCalls == 2
MaxGetCalls == 2
MaxQueryCalls == 2

(***************************************************************************)
(* String helpers (JavaScript String and Array methods).                   *)
(***************************************************************************)
RECURSIVE join(_, _)
\* Array.prototype.join: the elements separated by sep.
join(parts, sep) ==
    IF parts = <<>> THEN <<>>
    ELSE IF Len(parts) = 1 THEN parts[1]
    ELSE parts[1] \o sep \o join(Tail(parts), sep)

\* String.prototype.toUpperCase on one character.
toUpperCase(ch) ==
    CASE ch = "a" -> "A"
      [] ch = "b" -> "B"
      [] ch = "c" -> "C"
      [] ch = "d" -> "D"
      [] OTHER -> ch

\* The index of the first atom of s equal to ch, 0 when there is none.
indexOf(s, ch) ==
    IF \E i \in 1..Len(s) : s[i] = ch
    THEN CHOOSE i \in 1..Len(s) : s[i] = ch /\ \A j \in 1..(i - 1) : s[j] # ch
    ELSE 0

\* String.prototype.replace with a string pattern: the first occurrence only.
replace(s, from, to) ==
    LET i == indexOf(s, from)
    IN IF i = 0 THEN s ELSE [k \in 1..Len(s) |-> IF k = i THEN to ELSE s[k]]

\* String.prototype.slice(1).
slice1(s) == IF s = <<>> THEN <<>> ELSE Tail(s)

(***************************************************************************)
(* Numbers.  A JavaScript number is NaN or a value counted in              *)
(* ten-thousandths (remediation_points / 10000 is exact in that unit).     *)
(***************************************************************************)
Scale == 10000

NaN == [nan |-> TRUE, v |-> 0]
Num(v) == [nan |-> FALSE, v |-> v]

\* remediation_points / 10000; a property that is not supplied is undefined,
\* and undefined / 10000 is NaN.
divScale(rp) == IF rp.supplied THEN Num(rp.n) ELSE NaN

\* Math.max(1, x): NaN when x is NaN.
mathMax1(x) == IF x.nan THEN NaN ELSE IF x.v < Scale THEN Num(Scale) ELSE x

Digit(d) ==
    CASE d = 0 -> "0" [] d = 1 -> "1" [] d = 2 -> "2" [] d = 3 -> "3"
      [] d = 4 -> "4" [] d = 5 -> "5" [] d = 6 -> "6" [] d = 7 -> "7"
      [] d = 8 -> "8" [] d = 9 -> "9"

RECURSIVE natDigits(_)
\* The decimal digits of a natural number.
natDigits(n) ==
    IF n < 10 THEN <<Digit(n)>> ELSE natDigits(n \div 10) \o <<Digit(n % 10)>>

RECURSIVE padDigits(_, _)
\* f written with exactly width digits.
padDigits(f, width) ==
    IF width = 0 THEN <<>> ELSE padDigits(f \div 10, width - 1) \o <<Digit(f % 10)>>

RECURSIVE fracDigits(_, _)
\* The digits of the fraction f / 10^width, trailing zeros dropped.
fracDigits(f, width) ==
    IF f = 0 THEN <<>>
    ELSE IF f % 10 = 0 THEN fracDigits(f \div 10, width - 1)
    ELSE padDigits(f, width)

\* Number.prototype.toString.
numToString(x) ==
    IF x.nan THEN <<"N", "a", "N">>
    ELSE LET a == IF x.v < 0 THEN 0 - x.v ELSE x.v
             whole == natDigits(a \div Scale)
             frac == fracDigits(a % Scale, Len(natDigits(Scale)) - 1)
         IN (IF x.v < 0 THEN <<"-">> ELSE <<>>)
            \o whole
            \o (IF frac = <<>> THEN <<>> ELSE <<".">> \o frac)

(***************************************************************************)
(* Values, outcomes of promises, errors.                                   *)
(***************************************************************************)
Undefined == [tag |-> "undefined"]

Return(v) == [kind |-> "return", value |-> v]
Throw(e) == [kind |-> "throw", value |-> e]
Pending == [kind |-> "pending", value |-> Undefined]

\* An error object: its name, and the response it carries (status 0: none).
Error(name, status, data) ==
    [tag |-> "error", name |-> name, status |-> status, data |-> data]

NoResponse == [state |-> "pending", status |-> 0, data |-> Undefined]
Resolved(status, data) == [state |-> "resolved", status |-> status, data |-> data]
Rejected(name, status, data) ==
    [state |-> "rejected", status |-> status, data |-> Error(name, status, data)]

\* The state the operations of the client transform.
St ==
    [calls |-> calls, requests |-> requests, logs |-> logs,
     nanoidCount |-> nanoidCount, factoryCalls |-> factoryCalls]

(***************************************************************************)
(* WorkItemClient.                                                         *)
(***************************************************************************)
witUrls ==
    [Fields |-> <<"fields">>, WIQL |-> <<"wiql">>,
     WorkItemsBatch |-> <<"workitemsbatch">>, WorkItems |-> <<"workitems">>]

\* path.join of two segments.
pathJoin(a, b) == join(<<a, b>>, <<"/">>)

\* The base a request is resolved against: axiosConfig.baseURL is the
\* project-scoped base, axiosConfigFallback.baseURL the collection-scoped one;
\* webOpts of the got revision carries no base at all.
axiosConfig == IF rev = "axios" THEN "project" ELSE "none"
axiosConfigFallback == IF rev = "axios" THEN "collection" ELSE "none"

\* customAlphabet(...)(): an identifier no earlier call was given.
nanoid(S) == S.nanoidCount + 1

\* The requests call c has handed to the transport so far.
sentBy(S, c) == Cardinality({r \in 1..Len(S.requests) : S.requests[r].call = c})

\* A line written to the log sink under the correlation id of call c.  The
\* sink keeps, for each correlation id, the lines in the order they were
\* written; sent is the number of requests the call had issued by then.
emit(S, c, level, message, error, response) ==
    [S EXCEPT !.logs[S.calls[c].cid] =
                  Append(@, [level |-> level, cid |-> S.calls[c].cid,
                             message |-> message, error |-> error,
                             response |-> response, sent |-> sentBy(S, c)])]

\* console[type](`[${context.correlationId}] ${message}`, context)
log(S, c, type, message) == emit(S, c, type, message, Undefined, Undefined)

\* An HTTP request handed to the transport.
send(S, c, method, base, url, json) ==
    [S EXCEPT !.requests = Append(@, [call |-> c, method |-> method, base |-> base,
                                      url |-> url, json |-> json,
                                      resp |-> NoResponse])]

\* The broken boundary: the error is logged and thrown again.
tryCatchRethrow(S, c, o) ==
    IF o.kind = "throw"
    THEN [emit(S, c, "error", "", [name |-> o.value.name, status |-> o.value.status],
               Undefined)
              EXCEPT !.calls[c].pc = "done", !.calls[c].outcome = o]
    ELSE [S EXCEPT !.calls[c].pc = "done", !.calls[c].outcome = o]

\* tryCatch, from the point where op(context) has settled with outcome o: a
\* value is returned as it is; an error is written to tl.error with the
\* correlation id, the error (its name, and its message, which tells the
\* status) and err.response?.data (a got error has no response.data), and
\* undefined is returned.
tryCatch(S, c, o) ==
    IF o.kind = "throw"
    THEN [emit(S, c, "error", "", [name |-> o.value.name, status |-> o.value.status],
               IF rev = "axios" /\ o.value.status # 0
               THEN o.value.data ELSE Undefined)
              EXCEPT !.calls[c].pc = "done", !.calls[c].outcome = Return(Undefined)]
    ELSE [S EXCEPT !.calls[c].pc = "done", !.calls[c].outcome = o]

\* tryCatch, up to the call of op(context): a fresh correlation id and the
\* call's record.  The new call is the last of S.calls.
tryCatchEnter(S, op, args, parent) ==
    [S EXCEPT !.nanoidCount = nanoid(S),
              !.logs = Append(@, <<>>),
              !.calls = Append(@, [op |-> op, args |-> args, parent |-> parent,
                                   cid |-> nanoid(S), pc |-> "await",
                                   outcome |-> Pending])]

\* String.prototype.toLowerCase on a work item type.
toLowerCase(type) ==
    CASE type = "Bug" -> "bug"
      [] type = "Task" -> "task"
      [] OTHER -> type

\* markdown.render: the rendering of the markdown-it library, left opaque.
render(body) == <<"<render>">> \o body \o <<"</render>">>

\* The title prefix built in create.
titlePrefix(issue) ==
    <<toUpperCase(issue.check_name[1])>>
        \o slice1(replace(issue.check_name, "-", " "))

PatchOp(path, value) == [op |-> "add", path |-> path, value |-> value, from |-> "null"]

\* The patch with the check name put before the categories in the tags.
createOpsCheckNameFirst(issue, component, buildVersion) ==
    LET basicDesc ==
            <<"<ol><li>Open ">> \o component \o <<" > ">> \o issue.location.path
                \o <<" and observe lines ">> \o natDigits(issue.location.begin)
                \o <<" - ">> \o natDigits(issue.location.end) \o <<".</li></ol>">>
        extDesc == render(issue.content.body)
    IN <<PatchOp("/fields/CodeClimate.Fingerprint", issue.fingerprint),
         PatchOp("/fields/System.Tags",
                 join(<<<<"Code Climate">>, issue.check_name>>
                          \o issue.categories, <<",">>)),
         PatchOp("/fields/System.Title",
                 titlePrefix(issue) \o <<" in ">> \o component \o <<" > ">>
                     \o issue.location.path),
         PatchOp("/fields/System.State", <<"New">>),
         PatchOp("/fields/Microsoft.VSTS.Build.FoundIn",
                 component \o <<"_">> \o buildVersion),
         PatchOp("/fields/Microsoft.VSTS.Scheduling.Effort",
                 numToString(mathMax1(divScale(issue.remediation_points)))),
         PatchOp("/fields/Microsoft.VSTS.TCM.ReproSteps",
                 issue.description \o <<"<br/><br/>">> \o basicDesc
                     \o <<"<br/><br/>">> \o extDesc)>>

\* The patch operations create builds.
createOps(issue, component, buildVersion) ==
    LET basicDesc ==
            <<"<ol><li>Open ">> \o component \o <<" > ">> \o issue.location.path
                \o <<" and observe lines ">> \o natDigits(issue.location.begin)
                \o <<" - ">> \o natDigits(issue.location.end) \o <<".</li></ol>">>
        extDesc == render(issue.content.body)
    IN <<PatchOp("/fields/CodeClimate.Fingerprint", issue.fingerprint),
         PatchOp("/fields/System.Tags",
                 join(<<<<"Code Climate">>>> \o issue.categories
                          \o <<issue.check_name>>, <<",">>)),
         PatchOp("/fields/System.Title",
                 titlePrefix(issue) \o <<" in ">> \o component \o <<" > ">>
                     \o issue.location.path),
         PatchOp("/fields/System.State", <<"New">>),
         PatchOp("/fields/Microsoft.VSTS.Build.FoundIn",
                 component \o <<"_">> \o buildVersion),
         PatchOp("/fields/Microsoft.VSTS.Scheduling.Effort",
                 numToString(mathMax1(divScale(issue.remediation_points)))),
         PatchOp("/fields/Microsoft.VSTS.TCM.ReproSteps",
                 issue.description \o <<"<br/><br/>">> \o basicDesc
                     \o <<"<br/><br/>">> \o extDesc)>>

\* create, to its await: indexing an empty check_name gives undefined, whose
\* toUpperCase throws inside the boundary before anything is logged or sent.
create(S, args, parent) ==
    LET S1 == tryCatchEnter(S, "create", args, parent)
        c == Len(S1.calls)
        workItemUrl == pathJoin(witUrls.WorkItems, <<"$", toLowerCase(args.type)>>)
    IN IF args.issue.check_name = <<>>
       THEN tryCatch(S1, c, Throw(Error("TypeError", 0, Undefined)))
       ELSE send(log(S1, c, "debug",
                     "Creating work item for analysis issue."),
                 c, "PATCH", axiosConfig, workItemUrl,
                 createOps(args.issue, args.component, args.buildVersion))

\* update, to its await.
update(S, args, parent) ==
    LET S1 == tryCatchEnter(S, "update", args, parent)
        c == Len(S1.calls)
        workItemUrl == pathJoin(witUrls.WorkItems, natDigits(args.id))
    IN send(log(S1, c, "debug",
                "Updating work item for analysis issue."),
            c, "PATCH", axiosConfig, workItemUrl, args.ops)

\* get that asks the transport even for zero ids.
getNoShortCircuit(S, args, parent) ==
    LET S1 == tryCatchEnter(S, "get", args, parent)
        c == Len(S1.calls)
    IN send(log(S1, c, "debug", "Getting work items."),
            c, "POST", axiosConfig, witUrls.WorkItemsBatch,
            [ids |-> args.ids, fields |-> args.fields])

RECURSIVE sendEach(_, _, _, _)
\* One batch request per id.
sendEach(S, c, ids, fields) ==
    IF ids = <<>> THEN S
    ELSE sendEach(send(S, c, "POST", axiosConfig, witUrls.WorkItemsBatch,
                       [ids |-> <<Head(ids)>>, fields |-> fields]),
                  c, Tail(ids), fields)

\* get that fans out over the ids.
getPerId(S, args, parent) ==
    LET S1 == tryCatchEnter(S, "get", args, parent)
        c == Len(S1.calls)
        S2 == log(S1, c, "debug", "Getting work items.")
    IN IF args.ids = <<>>
       THEN tryCatch(S2, c, Return([tag |-> "batch", count |-> 0, value |-> <<>>]))
       ELSE sendEach(S2, c, args.ids, args.fields)

\* get, to its await or, for zero ids, to its return.
get(S, args, parent) ==
    LET S1 == tryCatchEnter(S, "get", args, parent)
        c == Len(S1.calls)
        S2 == log(S1, c, "debug", "Getting work items.")
    IN IF args.ids = <<>>
       THEN tryCatch(S2, c, Return([tag |-> "batch", count |-> 0, value |-> <<>>]))
       ELSE send(S2, c, "POST", axiosConfig, witUrls.WorkItemsBatch,
                 [ids |-> args.ids, fields |-> args.fields])

\* fields.map((v) => `[${v}]`)
fieldSetOf(fields) == [i \in 1..Len(fields) |-> <<"[">> \o fields[i] \o <<"]">>]

\* conditions.map((c) => `[${c.fieldName}] ${c.operator} ${c.value}`)
conditionSetOf(conditions) ==
    [i \in 1..Len(conditions) |->
        <<"[">> \o conditions[i].fieldName \o <<"]">> \o <<" ">>
            \o conditions[i].operator \o <<" ">> \o conditions[i].value]

\* The expression with the conditions joined like the field names.
wiqlQueryCommaJoined(fields, conditions) ==
    <<"Select ">> \o join(fieldSetOf(fields), <<", ">>)
        \o <<" From WorkItems Where ">>
        \o join(conditionSetOf(conditions), <<", ">>)

\* The expression query builds.
wiqlQuery(fields, conditions) ==
    <<"Select ">> \o join(fieldSetOf(fields), <<", ">>)
        \o <<" From WorkItems Where ">>
        \o join(conditionSetOf(conditions), <<" AND ">>)

\* query, to its await.
query(S, args, parent) ==
    LET S1 == tryCatchEnter(S, "query", args, parent)
        c == Len(S1.calls)
    IN send(log(S1, c, "debug", "Querying work items."),
            c, "POST", axiosConfig, witUrls.WIQL,
            [query |-> wiqlQuery(args.fields, args.conditions)])

\* fieldCreate, to its await.
fieldCreate(S, args, parent) ==
    LET S1 == tryCatchEnter(S, "fieldCreate", args, parent)
        c == Len(S1.calls)
    IN send(log(S1, c, "debug", "Creating work item field."),
            c, "POST", axiosConfig, witUrls.Fields, args.field)

\* fieldGet, to its await: both requests are handed to the transport before
\* Promise.all is awaited.  The axios revision asks for fields/<name> at the
\* two bases, the got revision twice for fields with the same options.
fieldGet(S, args, parent) ==
    LET S1 == tryCatchEnter(S, "fieldGet", args, parent)
        c == Len(S1.calls)
        fieldUrl == IF rev = "axios"
                    THEN pathJoin(witUrls.Fields, <<args.fieldName>>)
                    ELSE witUrls.Fields
        S2 == log(S1, c, "debug", "Getting work item field.")
    IN send(send(S2, c, "GET", axiosConfig, fieldUrl, Undefined),
            c, "GET", axiosConfigFallback, fieldUrl, Undefined)

\* The requests of call c, in the order they were handed to the transport.
RECURSIVE requestsOf(_, _, _)
requestsOf(S, c, from) ==
    IF from > Len(S.requests) THEN <<>>
    ELSE (IF S.requests[from].call = c THEN <<from>> ELSE <<>>)
             \o requestsOf(S, c, from + 1)

\* result.status === 200 ? result.data : fallback.data
fieldGetResult(result, fallback) ==
    IF result.status = 200 THEN result.data ELSE fallback.data

\* Promise.all over the two requests of fieldGet c: rejected as soon as one of
\* them is rejected, fulfilled once both are fulfilled, pending otherwise.
promiseAll(S, c) ==
    LET rs == requestsOf(S, c, 1)
        result == S.requests[rs[1]].resp
        fallback == S.requests[rs[2]].resp
    IN IF result.state = "rejected" THEN Throw(result.data)
       ELSE IF fallback.state = "rejected" THEN Throw(fallback.data)
       ELSE IF result.state = "resolved" /\ fallback.state = "resolved"
       THEN Return(fieldGetResult(result, fallback))
       ELSE Pending

\* What the await of call c has settled to: the response body, the error of
\* the rejected request, or still pending.
awaited(S, c) ==
    IF S.calls[c].op = "fieldGet" THEN promiseAll(S, c)
    ELSE LET resp == S.requests[requestsOf(S, c, 1)[1]].resp
         IN IF resp.state = "resolved" THEN Return(resp.data)
            ELSE IF resp.state = "rejected" THEN Throw(resp.data)
            ELSE Pending

\* factory(fieldName): the definition of the missing field.
factory(fieldName) == [tag |-> "fieldDefinition", name |-> fieldName]

\* fieldEnsure that creates the field without looking at the lookup's result.
fieldEnsureResumeAlwaysCreate(S, p, o) ==
    IF S.calls[p].pc = "lookup" /\ S.calls[p].args.factory # "null"
    THEN fieldCreate([S EXCEPT !.factoryCalls =
                                   Append(@, [call |-> p,
                                              fieldName |-> S.calls[p].args.fieldName]),
                               !.calls[p].pc = "create"],
                     [field |-> factory(S.calls[p].args.fieldName)], p)
    ELSE [S EXCEPT !.calls[p].pc = "done", !.calls[p].outcome = o]

\* fieldEnsure, from the point where the call it awaits (fieldGet, then
\* fieldCreate) has settled with outcome o.
fieldEnsureResume(S, p, o) ==
    IF S.calls[p].pc = "lookup"
    THEN IF o.kind = "return"
         THEN [S EXCEPT !.calls[p].pc = "done", !.calls[p].outcome = o]
         ELSE IF S.calls[p].args.factory = "null"
         THEN [S EXCEPT !.calls[p].pc = "done", !.calls[p].outcome = o]
         ELSE fieldCreate([S EXCEPT !.factoryCalls =
                                        Append(@, [call |-> p,
                                                   fieldName |->
                                                       S.calls[p].args.fieldName]),
                                    !.calls[p].pc = "create"],
                          [field |-> factory(S.calls[p].args.fieldName)], p)
    ELSE [S EXCEPT !.calls[p].pc = "done", !.calls[p].outcome = o]

\* fieldEnsure, to its first await: it has no boundary of its own and awaits
\* fieldGet.
fieldEnsure(S, args) ==
    LET S1 == [S EXCEPT !.calls = Append(@, [op |-> "fieldEnsure", args |-> args,
                                             parent |-> 0, cid |-> 0,
                                             pc |-> "lookup", outcome |-> Pending])]
    IN fieldGet(S1, [fieldName |-> args.fieldName], Len(S1.calls))

\* The continuations that run when a response for a request of call c has
\* arrived: the call's own, and fieldEnsure's when the call was made by it.
resume(S, c) ==
    IF S.calls[c].pc # "await" \/ awaited(S, c).kind = "pending" THEN S
    ELSE LET S1 == tryCatch(S, c, awaited(S, c))
             p == S1.calls[c].parent
         IN IF p = 0 THEN S1 ELSE fieldEnsureResume(S1, p, S1.calls[c].outcome)

(***************************************************************************)
(* The transport and the work-tracking service behind it.                  *)
(***************************************************************************)
Scopes == {"project", "collection"}

\* Whether request q asks the service to define a field.
IsFieldCreate(q) == q.method = "POST" /\ q.url = witUrls.Fields

\* The answers the transport can give to request r.  A response outside
\* 2xx and a failure of the network reject the request; axios and got both
\* do so by default.
Responses(r) ==
    LET q == requests[r]
        network == Rejected("NetworkError", 0, Undefined)
        signIn == Resolved(203, [tag |-> "signin"])
    IN IF q.method = "GET"
       THEN {network, signIn}
            \cup (IF Len(q.url) = 1
                  THEN {Resolved(200, [tag |-> "fieldList"])}
                  ELSE IF q.base \in Scopes /\ q.url[3] \in backend[q.base]
                  THEN {Resolved(200, [tag |-> "field", name |-> q.url[3],
                                       scope |-> q.base])}
                  ELSE {Rejected("HTTPError", 404, [tag |-> "notFound"])})
       ELSE IF IsFieldCreate(q) /\ \E sc \in Scopes : q.json.name \in backend[sc]
       THEN {network, Rejected("HTTPError", 409, [tag |-> "conflict"])}
       ELSE {network,
             Rejected("HTTPError", 500, [tag |-> "serverError"]),
             Resolved(200, [tag |-> "body", request |-> r])}

\* The scopes at which a field defined by request r becomes visible.
Defined(r, resp) ==
    IF IsFieldCreate(requests[r]) /\ resp.state = "resolved"
    THEN {{"project"}, {"collection"}, Scopes}
    ELSE {{}}

(***************************************************************************)
(* Inputs.                                                                 *)
(***************************************************************************)
FieldNames == {"CodeClimate.Fingerprint"}
Components == {<<"api">>}
BuildVersions == {<<"1.0.7">>}

Supplied(n) == [supplied |-> TRUE, n |-> n]
NotSupplied == [supplied |-> FALSE, n |-> 0]

Issue(fingerprint, check_name, categories, remediation_points) ==
    [fingerprint |-> fingerprint, check_name |-> check_name,
     description |-> <<"Found a problem.">>, categories |-> categories,
     remediation_points |-> remediation_points,
     location |-> [path |-> <<"src/index.ts">>, begin |-> 3, end |-> 12],
     content |-> [body |-> <<"## Details">>]]

\* The issues the calls of Spec draw from: one create can build a request
\* for, one it cannot.
SomeIssues ==
    {Issue(<<"fp1">>, <<"a", "-", "b">>, <<<<"Style">>>>, Supplied(25000)),
     Issue(<<"fp2">>, <<>>, <<>>, Supplied(0))}

\* The issues the calls of SpecPatch draw from.
Issues ==
    {Issue(<<"fp1">>, <<"a", "-", "b">>, <<<<"Style">>>>, Supplied(25000)),
     Issue(<<"fp2">>, <<>>, <<>>, Supplied(0)),
     Issue(<<"fp3">>, <<"a">>, <<>>, Supplied(0)),
     Issue(<<"fp4">>, <<"b", "-", "c", "-", "d">>,
           <<<<"Style">>, <<"Bug Risk">>>>, Supplied(0 - 30000)),
     Issue(<<"fp5">>, <<"c", "d">>, <<<<"Bug Risk">>, <<"Style">>>>, Supplied(9999)),
     Issue(<<"fp6">>, <<"-", "a">>, <<<<"Style">>>>, Supplied(10000)),
     Issue(<<"fp7">>, <<"d">>, <<<<"Style">>>>, Supplied(123456)),
     Issue(<<"fp8">>, <<"a", "b">>, <<>>, Supplied(600500)),
     Issue(<<"fp9">>, <<"a", "-">>, <<<<"Style">>, <<"Style">>>>, NotSupplied)}

SomeFields == {<<<<"System.Id">>>>}
SomeIds == {<<>>, <<4, 9>>}

\* The field lists and id lists the calls of SpecGet draw from.
FieldLists == {<<>>, <<<<"System.Id">>>>, <<<<"System.Id">>, <<"System.Title">>>>}
IdLists == {<<>>, <<4>>, <<4, 9>>, <<9, 4, 7>>}

Conditions ==
    {<<[fieldName |-> <<"State">>, operator |-> <<"=">>, value |-> <<"New">>]>>}

StateIsNew == [fieldName |-> <<"State">>, operator |-> <<"=">>, value |-> <<"New">>]
HasTag ==
    [fieldName |-> <<"System.Tags">>, operator |-> <<"Contains">>,
     value |-> <<"'Code Climate'">>]

\* The field lists and condition lists the calls of SpecQuery draw from.
QueryFieldLists ==
    {<<>>, <<<<"Title">>>>, <<<<"Id">>, <<"Title">>>>}
ConditionLists ==
    {<<>>, <<StateIsNew>>, <<HasTag, StateIsNew>>, <<StateIsNew, HasTag, StateIsNew>>}

(***************************************************************************)
(* The state machine.                                                      *)
(***************************************************************************)
Init ==
    /\ rev \in {"got", "axios"}
    /\ calls = <<>>
    /\ requests = <<>>
    /\ logs = <<>>
    /\ nanoidCount = 0
    /\ factoryCalls = <<>>
    /\ backend = [sc \in Scopes |-> {}]

Commit(S) ==
    /\ calls' = S.calls
    /\ requests' = S.requests
    /\ logs' = S.logs
    /\ nanoidCount' = S.nanoidCount
    /\ factoryCalls' = S.factoryCalls

\* The calls made by the caller (not by fieldEnsure).
TopLevel == {c \in 1..Len(calls) : calls[c].parent = 0}

\* The caller calls create.
Create(limit, issues) ==
    /\ Cardinality(TopLevel) < limit
    /\ \E issue \in issues, component \in Components, buildVersion \in BuildVersions :
          Commit(create(St, [type |-> "Bug", issue |-> issue, component |-> component,
                             buildVersion |-> buildVersion], 0))
    /\ UNCHANGED <<rev, backend>>

\* The caller calls update.
Update(limit) ==
    /\ Cardinality(TopLevel) < limit
    /\ Commit(update(St, [id |-> 42,
                          ops |-> <<PatchOp("/fields/System.State", <<"Closed">>)>>], 0))
    /\ UNCHANGED <<rev, backend>>

\* The caller calls get.
Get(limit, fieldLists, idLists) ==
    /\ Cardinality(TopLevel) < limit
    /\ \E fields \in fieldLists, ids \in idLists :
          Commit(get(St, [fields |-> fields, ids |-> ids], 0))
    /\ UNCHANGED <<rev, backend>>

\* The caller calls query.
Query(limit, fieldLists, conditionLists) ==
    /\ Cardinality(TopLevel) < limit
    /\ \E fields \in fieldLists, conditions \in conditionLists :
          Commit(query(St, [fields |-> fields, conditions |-> conditions], 0))
    /\ UNCHANGED <<rev, backend>>

\* The caller calls fieldCreate.
FieldCreate(limit) ==
    /\ Cardinality(TopLevel) < limit
    /\ \E name \in FieldNames :
          Commit(fieldCreate(St, [field |-> factory(name)], 0))
    /\ UNCHANGED <<rev, backend>>

\* The caller calls fieldGet.
FieldGet(limit) ==
    /\ Cardinality(TopLevel) < limit
    /\ \E name \in FieldNames : Commit(fieldGet(St, [fieldName |-> name], 0))
    /\ UNCHANGED <<rev, backend>>

\* The caller calls fieldEnsure, with a factory or without one.
FieldEnsure(limit) ==
    /\ Cardinality(TopLevel) < limit
    /\ \E name \in FieldNames, f \in {"null", "factory"} :
          Commit(fieldEnsure(St, [fieldName |-> name, factory |-> f]))
    /\ UNCHANGED <<rev, backend>>

\* The transport settles a pending request, and the continuations waiting for
\* it run.
Respond ==
    \E r \in 1..Len(requests) :
        /\ requests[r].resp.state = "pending"
        /\ \E resp \in Responses(r) : \E scopes \in Defined(r, resp) :
              /\ Commit(resume([St EXCEPT !.requests[r].resp = resp],
                               requests[r].call))
              /\ backend' = [sc \in Scopes |->
                                IF sc \in scopes
                                THEN backend[sc] \cup {requests[r].json.name}
                                ELSE backend[sc]]
        /\ UNCHANGED rev

Next ==
    \/ Create(MaxCalls, SomeIssues)
    \/ Update(MaxCalls)
    \/ Get(MaxCalls, SomeFields, SomeIds)
    \/ Query(MaxCalls, SomeFields, Conditions)
    \/ FieldCreate(MaxCalls)
    \/ FieldGet(MaxCalls)
    \/ FieldEnsure(MaxCalls)
    \/ Respond

Spec == Init /\ [][Next]_vars

\* create alone, over every issue of Issues.
NextPatch ==
    \/ Create(MaxPatchCalls, Issues)
    \/ Respond

SpecPatch == Init /\ [][NextPatch]_vars

\* get alone, over every field list and id list.
NextGet ==
    \/ Get(MaxGetCalls, FieldLists, IdLists)
    \/ Respond

SpecGet == Init /\ [][NextGet]_vars

\* query alone, over every field list and condition list.
NextQuery ==
    \/ Query(MaxQueryCalls, QueryFieldLists, ConditionLists)
    \/ Respond

SpecQuery == Init /\ [][NextQuery]_vars

(***************************************************************************)
(* Vocabulary of the properties.                                           *)
(***************************************************************************)
Calls == 1..Len(calls)
Requests == 1..Len(requests)
RequestsBy(c) == {r \in Requests : requests[r].call = c}
ChildrenOf(p, op) == {c \in Calls : calls[c].parent = p /\ calls[c].op = op}
Ensures == {p \in Calls : calls[p].op = "fieldEnsure"}
Finished(c) == calls[c].pc = "done"

\* The error lines written under the correlation id of call c.
ErrorLines(c) ==
    {i \in 1..Len(logs[calls[c].cid]) : logs[calls[c].cid][i].level = "error"}

\* The field-create requests issued on behalf of fieldEnsure call p.
EnsureCreates(p) ==
    {r \in Requests : requests[r].call \in ChildrenOf(p, "fieldCreate")
                      /\ IsFieldCreate(requests[r])}

FactoryCallsOf(p) == {i \in 1..Len(factoryCalls) : factoryCalls[i].call = p}

\* The lookup of fieldEnsure call p failed, and the error it failed with
\* carried status st (0: no response at all).
LookupFailedWith(p, st) ==
    \E g \in ChildrenOf(p, "fieldGet") :
        \E i \in ErrorLines(g) : logs[calls[g].cid][i].error.status = st

\* Both requests of the lookup of fieldEnsure call p were answered with a
\* response, so that the lookup had a result.
LookupSucceeded(p) ==
    \E g \in ChildrenOf(p, "fieldGet") :
        /\ Finished(g)
        /\ \A r \in RequestsBy(g) : requests[r].resp.state = "resolved"

(***************************************************************************)
(* Properties.                                                             *)
(***************************************************************************)

\* C1: a finished fieldEnsure(name, factory) with a factory, whose lookup
\* failed because the field does not exist (404), has invoked the factory
\* exactly once, has issued exactly one field-create request, carrying the
\* factory's definition, and returns the field that request created.
C1_EnsureCreatesMissingField ==
    \A p \in Ensures :
        (Finished(p) /\ calls[p].args.factory # "null" /\ LookupFailedWith(p, 404))
            => /\ Cardinality(FactoryCallsOf(p)) = 1
               /\ Cardinality(EnsureCreates(p)) = 1
               /\ \A r \in EnsureCreates(p) :
                     /\ requests[r].json = factory(calls[p].args.fieldName)
                     /\ requests[r].resp.state = "resolved"
                            => calls[p].outcome = Return(requests[r].resp.data)

\* C2: a finished fieldEnsure whose lookup failed with an error other than
\* not-found (here: the network failed, no response) has thrown that error
\* to its caller, and has neither invoked the factory nor issued a
\* field-create request.
C2_EnsurePropagatesOtherErrors ==
    \A p \in Ensures :
        (Finished(p) /\ LookupFailedWith(p, 0))
            => /\ calls[p].outcome.kind = "throw"
               /\ calls[p].outcome.value.name = "NetworkError"
               /\ FactoryCallsOf(p) = {}
               /\ EnsureCreates(p) = {}

\* The operations C3 is about.
Swallowing == {"create", "update", "get", "query", "fieldCreate"}

\* Call c failed: it could not build its request, or its request was rejected.
FailedCall(c) ==
    \/ calls[c].op = "create" /\ calls[c].args.issue.check_name = <<>>
    \/ \E r \in RequestsBy(c) : requests[r].resp.state = "rejected"

\* C3: every call of create, update, get, query and fieldCreate is finished
\* as soon as it has failed or its request has been answered; it never throws
\* to its caller; it returns undefined when it failed, and the body of the
\* response when its request was answered with one.
C3_FailuresAreSwallowed ==
    \A c \in Calls :
        calls[c].op \in Swallowing
            => /\ calls[c].outcome.kind # "throw"
               /\ FailedCall(c)
                     => Finished(c) /\ calls[c].outcome = Return(Undefined)
               /\ \A r \in RequestsBy(c) :
                     requests[r].resp.state = "resolved"
                         => Finished(c)
                            /\ calls[c].outcome = Return(requests[r].resp.data)

\* Witness of C3: one call has failed in the transport and returned undefined,
\* another has been answered and returned the body.
C3_Witness ==
    /\ \E c \in Calls :
          /\ calls[c].op \in Swallowing
          /\ \E r \in RequestsBy(c) : requests[r].resp.status = 500
          /\ calls[c].outcome = Return(Undefined)
    /\ \E c \in Calls :
          /\ calls[c].op \in Swallowing
          /\ \E r \in RequestsBy(c) :
                /\ requests[r].resp.state = "resolved"
                /\ calls[c].outcome = Return(requests[r].resp.data)

\* The two requests of fieldGet call g: the project-scoped one is issued
\* first, the collection-scoped one second.
ProjectRequest(g) == CHOOSE r \in RequestsBy(g) : \A q \in RequestsBy(g) : r <= q
CollectionRequest(g) == CHOOSE r \in RequestsBy(g) : \A q \in RequestsBy(g) : r >= q

\* C4: a finished fieldGet returns the project-scoped result when the
\* project-scoped request reported success (200); otherwise, when the
\* collection-scoped request was answered, it returns the collection-scoped
\* result -- in particular when the project-scoped request failed.
C4_ScopePrecedence ==
    \A g \in Calls :
        (calls[g].op = "fieldGet" /\ Finished(g))
            => LET result == requests[ProjectRequest(g)].resp
                   fallback == requests[CollectionRequest(g)].resp
               IN /\ (result.state = "resolved" /\ result.status = 200)
                         => calls[g].outcome = Return(result.data)
                  /\ (result.state # "pending"
                      /\ ~(result.state = "resolved" /\ result.status = 200)
                      /\ fallback.state = "resolved")
                         => calls[g].outcome = Return(fallback.data)

\* The calls of get.
Gets == {c \in Calls : calls[c].op = "get"}

\* C5: get called with zero ids, whatever the field names, has returned the
\* batch {count: 0, value: []} and has issued no request.
C5_ZeroIdsNoRequest ==
    \A c \in Gets :
        calls[c].args.ids = <<>>
            => /\ Finished(c)
               /\ calls[c].outcome = Return([tag |-> "batch", count |-> 0, value |-> <<>>])
               /\ RequestsBy(c) = {}

\* Witness of C5: get was called with zero ids and with field names.
C5_Witness ==
    \E c \in Gets :
        /\ calls[c].args.ids = <<>>
        /\ calls[c].args.fields # <<>>
        /\ Finished(c)
        /\ RequestsBy(c) = {}

\* C6: get called with one or more ids has, at every moment from its call on
\* (before the answer, after a success, after a failure), issued exactly one
\* request: a POST to the batch endpoint carrying all the ids and the field
\* names.
C6_OneBatchRequest ==
    \A c \in Gets :
        calls[c].args.ids # <<>>
            => /\ Cardinality(RequestsBy(c)) = 1
               /\ \A r \in RequestsBy(c) :
                     /\ requests[r].method = "POST"
                     /\ requests[r].url = <<"workitemsbatch">>
                     /\ requests[r].json.ids = calls[c].args.ids
                     /\ requests[r].json.fields = calls[c].args.fields

\* Witness of C6: a get for several ids has failed, and one for several ids
\* has succeeded.
C6_Witness ==
    /\ \E c \in Gets :
          /\ Len(calls[c].args.ids) >= 2
          /\ Finished(c)
          /\ \E r \in RequestsBy(c) : requests[r].resp.state = "rejected"
    /\ \E c \in Gets :
          /\ Len(calls[c].args.ids) >= 2
          /\ Finished(c)
          /\ \E r \in RequestsBy(c) : requests[r].resp.state = "resolved"

\* The field-create requests issued on behalf of fieldEnsure calls for name.
EnsureCreatesFor(name) ==
    UNION {EnsureCreates(p) : p \in {q \in Ensures : calls[q].args.fieldName = name}}

\* The field exists at some scope of the service.
Exists(name) == \E sc \in Scopes : name \in backend[sc]

\* At most one field-create request per name comes from fieldEnsure calls.
AtMostOneEnsureCreate ==
    \A name \in FieldNames : Cardinality(EnsureCreatesFor(name)) <= 1

\* A step in which fieldEnsure issues a field-create request for a name starts
\* in a state where the field does not exist.
NoEnsureCreateOnceExists ==
    \A name \in FieldNames :
        Exists(name) => EnsureCreatesFor(name)' = EnsureCreatesFor(name)

\* C7: the fieldEnsure calls for one field name, started against a service
\* where the field is missing and interleaved in any way, issue at most one
\* field-create request for it in total, and none once the field exists.
C7_NoDuplicateCreation ==
    [] AtMostOneEnsureCreate /\ [][NoEnsureCreateOnceExists]_vars

\* Witness of C7: two fieldEnsure calls with a factory, for the same name,
\* have both finished after a lookup that found the field missing (404).
C7_Witness ==
    \E p, q \in Ensures :
        /\ p # q
        /\ calls[p].args.fieldName = calls[q].args.fieldName
        /\ calls[p].args.factory # "null" /\ calls[q].args.factory # "null"
        /\ Finished(p) /\ Finished(q)
        /\ LookupFailedWith(p, 404) /\ LookupFailedWith(q, 404)

\* C8: a finished fieldEnsure whose lookup succeeded has not invoked the
\* factory, has issued no field-create request, and returns what the lookup
\* returned: the project-scoped body when that response is a 200, the
\* collection-scoped body otherwise.
C8_EnsureReturnsExisting ==
    \A p \in Ensures :
        (Finished(p) /\ LookupSucceeded(p))
            => /\ FactoryCallsOf(p) = {}
               /\ EnsureCreates(p) = {}
               /\ \A g \in ChildrenOf(p, "fieldGet") :
                     /\ calls[p].outcome = calls[g].outcome
                     /\ calls[p].outcome.kind = "return"
                     /\ calls[p].outcome.value \in
                            {requests[r].resp.data : r \in RequestsBy(g)}

\* Witness of C8: a fieldEnsure with a factory has returned the field its
\* lookup found.
C8_Witness ==
    \E p \in Ensures :
        /\ Finished(p)
        /\ LookupSucceeded(p)
        /\ calls[p].args.factory # "null"
        /\ calls[p].outcome.value.tag = "field"

\* The calls of create that have handed a request to the transport.
Creates == {c \in Calls : calls[c].op = "create" /\ RequestsBy(c) # {}}

\* The patch create call c has sent.
PatchOf(c) == requests[CHOOSE r \in RequestsBy(c) : TRUE].json

RECURSIVE Split(_, _)
\* The pieces of the string s between the atoms sep.
Split(s, sep) ==
    LET i == indexOf(s, sep)
    IN IF i = 0 THEN <<s>>
       ELSE <<SubSeq(s, 1, i - 1)>> \o Split(SubSeq(s, i + 1, Len(s)), sep)

\* The field paths of a new work item, in the order of the patch.
PatchPaths ==
    <<"/fields/CodeClimate.Fingerprint", "/fields/System.Tags", "/fields/System.Title",
      "/fields/System.State", "/fields/Microsoft.VSTS.Build.FoundIn",
      "/fields/Microsoft.VSTS.Scheduling.Effort", "/fields/Microsoft.VSTS.TCM.ReproSteps">>

\* C9: the patch of every create that issues its request has exactly seven
\* operations, for fingerprint, tags, title, state, found-in, effort and
\* repro-steps in this order; the fingerprint value is the issue's
\* fingerprint, the state value is "New", and the tags value, cut at its
\* commas, is the marker tag, then the issue's categories in their order,
\* then the check name.
C9_PatchShape ==
    \A c \in Creates :
        LET patch == PatchOf(c)
            issue == calls[c].args.issue
        IN /\ Len(patch) = 7
           /\ \A i \in 1..7 : patch[i].path = PatchPaths[i] /\ patch[i].op = "add"
           /\ patch[1].value = issue.fingerprint
           /\ patch[4].value = <<"New">>
           /\ Split(patch[2].value, ",")
                  = <<<<"Code Climate">>>> \o issue.categories \o <<issue.check_name>>

\* Witness of C9: a create for an issue with two different categories has
\* sent its patch.
C9_Witness ==
    \E c \in Creates :
        /\ Len(calls[c].args.issue.categories) = 2
        /\ calls[c].args.issue.categories[1] # calls[c].args.issue.categories[2]
        /\ Len(PatchOf(c)) = 7

IsDigit(ch) == \E d \in 0..9 : Digit(d) = ch
DigitValue(ch) == CHOOSE d \in 0..9 : Digit(d) = ch

RECURSIVE NatOf(_)
\* The natural number a sequence of digits denotes.
NatOf(ds) ==
    IF ds = <<>> THEN 0
    ELSE 10 * NatOf(SubSeq(ds, 1, Len(ds) - 1)) + DigitValue(ds[Len(ds)])

RECURSIVE PadRight(_, _)
PadRight(ds, width) == IF Len(ds) >= width THEN ds ELSE PadRight(ds \o <<"0">>, width)

\* The number a decimal numeral denotes, in units of 1/Scale; -1 when the
\* string is no numeral of a number that is >= 0 with at most four decimals.
Denotes(s) ==
    LET parts == Split(s, ".")
    IN IF /\ Len(parts) \in {1, 2}
          /\ parts[1] # <<>>
          /\ \A k \in 1..Len(parts) : \A i \in 1..Len(parts[k]) : IsDigit(parts[k][i])
          /\ Len(parts) = 2 => Len(parts[2]) \in 1..4
       THEN NatOf(parts[1]) * Scale
                + (IF Len(parts) = 2 THEN NatOf(PadRight(parts[2], 4)) ELSE 0)
       ELSE -1

\* C10: the effort value of every patch create sends denotes a number that is
\* at least 1, and that is max(1, remediation_points / 10000) -- 1 when
\* remediation_points is zero, negative or not supplied.
C10_EffortAtLeastOne ==
    \A c \in Creates :
        LET effort == Denotes(PatchOf(c)[6].value)
            rp == calls[c].args.issue.remediation_points
        IN /\ effort >= Scale
           /\ effort = IF rp.supplied /\ rp.n > Scale THEN rp.n ELSE Scale

\* The calls of query.
Queries == {c \in Calls : calls[c].op = "query"}

RECURSIVE Text(_)
\* The text a sequence of atoms spells.
Text(s) == IF s = <<>> THEN "" ELSE Head(s) \o Text(Tail(s))

RECURSIVE TextOfFields(_, _)
\* The first n field names, each in brackets, separated by ", ".
TextOfFields(fields, n) ==
    IF n = 0 THEN ""
    ELSE TextOfFields(fields, n - 1) \o (IF n = 1 THEN "" ELSE ", ")
             \o "[" \o Text(fields[n]) \o "]"

RECURSIVE TextOfConditions(_, _)
\* The first n conditions, each as "[fieldName] operator value", separated
\* by " AND ".
TextOfConditions(conditions, n) ==
    IF n = 0 THEN ""
    ELSE TextOfConditions(conditions, n - 1) \o (IF n = 1 THEN "" ELSE " AND ")
             \o "[" \o Text(conditions[n].fieldName) \o "] "
             \o Text(conditions[n].operator) \o " " \o Text(conditions[n].value)

\* C11: every call of query has issued exactly one request, a POST to wiql,
\* whose expression spells "Select <field names in brackets, joined by ", ">
\* From WorkItems Where <conditions as "[fieldName] operator value", joined by
\* " AND ">"; for the fields Id, Title and the condition State = New it spells
\* "Select [Id], [Title] From WorkItems Where [State] = New".
C11_QueryExpression ==
    \A c \in Queries :
        LET fields == calls[c].args.fields
            conditions == calls[c].args.conditions
        IN /\ Cardinality(RequestsBy(c)) = 1
           /\ \A r \in RequestsBy(c) :
                 /\ requests[r].method = "POST"
                 /\ requests[r].url = <<"wiql">>
                 /\ Text(requests[r].json.query)
                        = "Select " \o TextOfFields(fields, Len(fields))
                              \o " From WorkItems Where "
                              \o TextOfConditions(conditions, Len(conditions))
                 /\ (fields = <<<<"Id">>, <<"Title">>>> /\ conditions = <<StateIsNew>>)
                        => Text(requests[r].json.query)
                               = "Select [Id], [Title] From WorkItems Where [State] = New"

\* Witness of C11: the query for Id, Title where State = New has been sent and
\* answered, and so has a query with several conditions.
C11_Witness ==
    /\ \E c \in Queries :
          /\ calls[c].args.fields = <<<<"Id">>, <<"Title">>>>
          /\ calls[c].args.conditions = <<StateIsNew>>
          /\ Finished(c)
          /\ \E r \in RequestsBy(c) :
                Text(requests[r].json.query)
                    = "Select [Id], [Title] From WorkItems Where [State] = New"
    /\ \E c \in Queries :
          /\ Len(calls[c].args.conditions) >= 2
          /\ Finished(c)

\* Every "-" of s turned into " ".
AllDashesToSpaces(s) == [k \in 1..Len(s) |-> IF s[k] = "-" THEN " " ELSE s[k]]

\* The title prefix the check name stands for: every dash a space, the first
\* character in upper case, the rest as it is.
Capitalized(check_name) ==
    LET spaced == AllDashesToSpaces(check_name)
    IN [k \in 1..Len(spaced) |-> IF k = 1 THEN toUpperCase(spaced[k]) ELSE spaced[k]]

\* C12: the title value of every patch create sends is "<P> in <component> >
\* <file path>", P being the check name with every dash turned into a space
\* and its first character, and only that one, in upper case.
C12_TitleOfCheckName ==
    \A c \in Creates :
        Text(PatchOf(c)[3].value)
            = Text(Capitalized(calls[c].args.issue.check_name)) \o " in "
                  \o Text(calls[c].args.component) \o " > "
                  \o Text(calls[c].args.issue.location.path)

\* The operations that run inside the logging boundary.
Logged == {"create", "update", "get", "query", "fieldCreate", "fieldGet"}

\* The lines of level written under the correlation id of call c.
LinesOf(c, level) ==
    {i \in 1..Len(logs[calls[c].cid]) : logs[calls[c].cid][i].level = level}

\* Call c has finished by failing: its request could not be built, or a
\* request it awaited was rejected before it finished.
FinishedByFailure(c) ==
    /\ Finished(c)
    /\ \/ calls[c].op = "create" /\ calls[c].args.issue.check_name = <<>>
       \/ calls[c].op # "fieldGet"
              /\ \E r \in RequestsBy(c) : requests[r].resp.state = "rejected"
       \/ calls[c].op = "fieldGet"
              /\ ~ \A r \in RequestsBy(c) : requests[r].resp.state = "resolved"

\* C13: every call of create, update, get, query, fieldCreate and fieldGet
\* has written exactly one debug line, before any of its requests was issued;
\* a call that failed has written exactly one error line, after the debug
\* line; the lines carry the correlation id of the call, which no other call
\* has.
C13_DebugThenError ==
    \A c \in Calls :
        calls[c].op \in Logged
            => /\ Cardinality(LinesOf(c, "debug")) = 1
               /\ \A i \in LinesOf(c, "debug") :
                     /\ i = 1
                     /\ logs[calls[c].cid][i].sent = 0
                     /\ logs[calls[c].cid][i].cid = calls[c].cid
               /\ FinishedByFailure(c)
                     => /\ Cardinality(LinesOf(c, "error")) = 1
                        /\ \A i \in LinesOf(c, "error") :
                              /\ i = 2
                              /\ logs[calls[c].cid][i].cid = calls[c].cid
               /\ ~FinishedByFailure(c) => LinesOf(c, "error") = {}
               /\ \A d \in Calls :
                     (d # c /\ calls[d].op \in Logged) => calls[d].cid # calls[c].cid

\* C14: every fieldGet call has handed both its requests to the transport by
\* the time it first awaits, and has finished only when both have completed.
C14_WaitsForBoth ==
    \A g \in Calls :
        calls[g].op = "fieldGet"
            => /\ Cardinality(RequestsBy(g)) = 2
               /\ Finished(g)
                     => \A r \in RequestsBy(g) : requests[r].resp.state # "pending"

\* C15: every fieldGet(name) call has issued exactly two requests, both GET
\* for fields/<name>, the first against the project-scoped base, the second
\* against the collection-scoped base.
C15_TwoScopedGets ==
    \A g \in Calls :
        calls[g].op = "fieldGet"
            => /\ Cardinality(RequestsBy(g)) = 2
               /\ \A r \in RequestsBy(g) :
                     /\ requests[r].method = "GET"
                     /\ requests[r].url = <<"fields", "/", calls[g].args.fieldName>>
               /\ requests[ProjectRequest(g)].base = "project"
               /\ requests[CollectionRequest(g)].base = "collection"

=============================================================================
